---- MODULE Spec2Model ----
(***************************************************************************)
(* The orbit camera controller of THE STILL (CameraSystem, touch + mouse   *)
(* version) as a state machine: one action per event handler / public      *)
(* method, the frame tick included.                                        *)
(*                                                                         *)
(* Fixed-point units (the source computes in IEEE doubles):                *)
(*   screen positions   quarter pixels            (1 px      = 4)          *)
(*   radii, distances   1e-5 world units          (1 unit    = 100000)     *)
(*   pan of the target  1e-3 world units                                   *)
(*   angles             1e-7 rad                  (1 rad     = 10000000)   *)
(*   time               milliseconds                                       *)
(***************************************************************************)
EXTENDS Integers, Sequences, FiniteSets, TLC

VARIABLES
  enabled,              \* public enabled
  target,               \* orbit target (look-at point)
  spherical,            \* [theta, phi, radius]
  sphericalDelta,       \* pending rotation [theta, phi]
  distanceMode,         \* "AT" | "NEAR" | "FAR"
  isDragging,           \* mouse drag flag
  activePointerId,      \* <<>> (null) or <<id>>
  lastPointer,          \* last mouse sample
  pointers,             \* Map<number, PointerRec> in insertion order
  lastPinchDist,        \* pinch reference distance
  lastTwoFingerCenter,  \* pan reference midpoint
  radiusOverride,       \* <<>> (null) or <<radius>>
  farLimit,             \* dynamic FAR clamp
  idleMs,               \* idle time
  lastWheelAt,          \* time of the last accepted wheel event
  camera,               \* camera.position, as target + offset in spherical form
  draft,                \* the save draft's camera section (SaveManager.data.camera)
  now,                  \* performance.now()
  steps,                \* number of handlers the exploration may still run
  flushed,              \* number of save.save() calls made by the last handler
  emitted,              \* bus events emitted by the last handler, in order
  last                  \* the last handler that ran, its input, the values it started
                        \* from and whether an exception left it

\* ResonantPulseChain
VARIABLES
  seq,                  \* the sequence to repeat
  index,                \* number of elements matched so far
  playbackActive,       \* public playbackActive
  teaching,             \* loop counter i of every playTeach call waiting on its delay,
                        \* in the order their timers fire
  taken,                \* the inputs matched since the last reset
  fired                 \* hooks called by the last step, in order

\* SceneManager and its FadeTransition
VARIABLES
  activeSceneId,        \* id of the scene being drawn
  pendingSceneId,       \* <<>> (null) or <<id>>
  transitionInProgress, \* SceneManager.transitionInProgress
  phase,                \* FadeTransition.phase: "idle" | "out" | "in"
  alpha                 \* FadeTransition.alpha, in 1/6000

cameraVars == <<enabled, target, spherical, sphericalDelta, distanceMode, isDragging,
                activePointerId, lastPointer, pointers, lastPinchDist,
                lastTwoFingerCenter, radiusOverride, farLimit, idleMs, lastWheelAt,
                camera, draft, now, flushed, emitted>>

chainVars == <<seq, index, playbackActive, teaching, taken, fired>>

sceneVars == <<activeSceneId, pendingSceneId, transitionInProgress, phase, alpha>>

vars == <<cameraVars, steps, last, chainVars, sceneVars>>

(***************************************************************************)
(* Bounds of the exploration.                                              *)
(***************************************************************************)
MaxSteps == 4
MaxStepsPinch == 5
MaxStepsThreshold == 3
MaxStepsFault == 3
MaxStepsWheel == 4
MaxStepsIdle == 5
MaxStepsFar == 4

(***************************************************************************)
(* Program constants.                                                      *)
(***************************************************************************)
PI == 31415927
HalfPI == 15707963
EPS == 1000
AutoRotateSpeed == 1300
MouseRotateSpeed == 2500
TouchRotateSpeed == 775
DampingPerMille == 31
PanSpeedPerMille == 775
PinchZoomSpeed == 1975
PinchActiveThreshold == 1
PinchPanDampingPercent == 25
WheelCooldownMs == 250
WheelThreshold == 4
AutoRotateDelayMs == 12000
Infinity == -1

DistanceModes == [AT |-> 1000000, NEAR |-> 5000000, FAR |-> 30000000]
ModeOrder == <<"AT", "NEAR", "FAR">>
Modes == {"AT", "NEAR", "FAR"}

(***************************************************************************)
(* Arithmetic helpers.                                                     *)
(***************************************************************************)
Abs(x) == IF x < 0 THEN -x ELSE x
Min(a, b) == IF a < b THEN a ELSE b
Max(a, b) == IF a > b THEN a ELSE b

\* a * num / den, rounded toward zero
MulDiv(a, num, den) ==
  IF a >= 0 THEN (a * num) \div den ELSE -(((-a) * num) \div den)

RECURSIVE SqrtIter(_, _)
SqrtIter(n, x) ==
  LET y == (x + n \div x) \div 2
  IN IF y >= x THEN x ELSE SqrtIter(n, y)

Sqrt(n) == IF n = 0 THEN 0 ELSE SqrtIter(n, n)

\* THREE.MathUtils.clamp(value, min, max) = Math.max(min, Math.min(max, value))
Clamp(value, lo, hi) == Max(lo, Min(hi, value))

\* Vector2.distanceTo
DistanceTo(a, b) ==
  Sqrt((a[1] - b[1]) * (a[1] - b[1]) + (a[2] - b[2]) * (a[2] - b[2]))

\* a.add(b).multiplyScalar(0.5)
Midpoint(a, b) == <<(a[1] + b[1]) \div 2, (a[2] + b[2]) \div 2>>

\* the angle brought back into (-PI, PI], as atan2 returns it
WrapAngle(t) ==
  LET m == (t + PI) % (2 * PI)
  IN IF m = 0 THEN PI ELSE m - PI

(***************************************************************************)
(* The optional fields.                                                    *)
(***************************************************************************)
Null == <<>>
Some(v) == <<v>>
HasOverride == radiusOverride # Null
OverrideValue == radiusOverride[1]

(***************************************************************************)
(* The pointer map.                                                        *)
(***************************************************************************)
PointerIds == {1, 2, 3}
PointerType(id) == IF id = 1 THEN "mouse" ELSE "touch"

HasPointer(ps, id) == \E i \in 1..Len(ps) : ps[i].id = id
IndexOfPointer(ps, id) == CHOOSE i \in 1..Len(ps) : ps[i].id = id
GetPointer(ps, id) == ps[IndexOfPointer(ps, id)]

\* Map.set: a new key goes last, an existing key keeps its place
MapSet(ps, pr) ==
  IF HasPointer(ps, pr.id)
  THEN [ps EXCEPT ![IndexOfPointer(ps, pr.id)] = pr]
  ELSE Append(ps, pr)

\* a delete that drops the oldest record, whatever its id
MapDeleteOldest(ps, id) == IF ps = <<>> THEN ps ELSE Tail(ps)

\* Map.delete
MapDelete(ps, id) == SelectSeq(ps, LAMBDA r : r.id # id)

\* the first two records in iteration order
getTwoPointers(ps) == <<ps[1], ps[2]>>

(***************************************************************************)
(* Pure parts of the controller.                                           *)
(***************************************************************************)
\* clampRadius with the far limit passed in
clampRadius(r, far) == Clamp(r, DistanceModes["AT"], far)

\* the resolution as it was before the override existed: the mode's radius only
CanonicalRadiusOnly(ov, mode, far) == clampRadius(DistanceModes[mode], far)

\* update: this.radiusOverride ?? baseRadius, then clampRadius
ResolveRadius(ov, mode, far) ==
  LET baseRadius == DistanceModes[mode]
      desiredRadius == IF ov # Null THEN ov[1] ELSE baseRadius
  IN clampRadius(desiredRadius, far)

\* a clamp that keeps phi in [0, PI] only, poles included
ClampPhiToPoles(phi) == Clamp(phi, 0, PI)

\* update: clamp phi away from the poles
ClampPhi(phi) == Clamp(phi, EPS, PI - EPS)

\* a pending delta that does not decay
Undamped(d) == d

\* update: delta *= 1 - damping; the product is rounded toward zero, and taken
\* on the thousands and the rest apart so that it stays within 32 bits
Damp(d) ==
  LET keep == 1000 - DampingPerMille
      m == Abs(d)
      v == (m \div 1000) * keep + ((m % 1000) * keep) \div 1000
  IN IF d < 0 THEN 0 - v ELSE v

\* an auto-rotate that looks at the idle time only, not at the gesture state
AutoRotateWhenever(idle, idleAfter, dt) ==
  IF idleAfter > AutoRotateDelayMs THEN AutoRotateSpeed * dt ELSE 0

\* an auto-rotate that looks at the drag flag and the idle time, not at the pointers
AutoRotateIgnoringPointers(idle, idleAfter, dt) ==
  IF ~isDragging /\ idleAfter > AutoRotateDelayMs THEN AutoRotateSpeed * dt ELSE 0

\* update: the auto-rotate increment of theta; idle is !isDragging && !hasPointers,
\* idleAfter the idle time with this frame added
AutoRotateStep(idle, idleAfter, dt) ==
  IF idle /\ idleAfter > AutoRotateDelayMs THEN AutoRotateSpeed * dt ELSE 0

\* a pose that leaves the target out
PoseAtOrigin(tgt, sph) == [tgt |-> [pt |-> "origin", pan |-> <<0, 0>>], sph |-> sph]

\* update: new Vector3().setFromSpherical(spherical).add(target)
Pose(tgt, sph) == [tgt |-> tgt, sph |-> sph]

\* a pinch that zooms the same way whichever way the fingers move
PinchRadiusOneWay(seeded, dd, far) ==
  clampRadius(seeded + Abs(dd) * PinchZoomSpeed, far)

\* a pinch with the direction inverted
PinchRadiusInverted(seeded, dd, far) ==
  clampRadius(seeded + dd * PinchZoomSpeed, far)

\* onPointerMove: clampRadius(radiusOverride - dd * pinchZoomSpeed)
PinchRadius(seeded, dd, far) ==
  clampRadius(seeded - dd * PinchZoomSpeed, far)

\* cycleDistance without argument: modes[(i + 1) % modes.length]
ModeIndex(m) == CHOOSE i \in 1..Len(ModeOrder) : ModeOrder[i] = m

\* the cycle run backwards: modes[(i + modes.length - 1) % modes.length]
PrevMode(m) == ModeOrder[((ModeIndex(m) + Len(ModeOrder) - 2) % Len(ModeOrder)) + 1]

\* a cycle that wraps one entry early: modes[(i + 1) % (modes.length - 1)]
ToggleMode(m) == ModeOrder[(ModeIndex(m) % (Len(ModeOrder) - 1)) + 1]

NextMode(m) == ModeOrder[(ModeIndex(m) % Len(ModeOrder)) + 1]

\* the far limit taken as given, without the floor
FarLimitUnfloored(newFar) == newFar

\* the far limit floored at FAR instead of NEAR
FarLimitFlooredAtFar(newFar) == Max(newFar, DistanceModes["FAR"])

\* a far limit that only rejects negative requests
FarLimitFlooredAtZero(newFar) == Max(newFar, 0)

\* setFarLimit: Math.max(newFar, distanceModes.NEAR)
FarLimitFor(newFar) == Max(newFar, DistanceModes["NEAR"])

\* updateDistanceModeFromRadius: the loop over modes, best replaced on d < bestD
RECURSIVE BestFrom(_, _, _, _)
BestFrom(i, best, bestD, radius) ==
  IF i > Len(ModeOrder) THEN best
  ELSE LET m == ModeOrder[i]
           d == Abs(DistanceModes[m] - radius)
       IN IF bestD = Infinity \/ d < bestD
          THEN BestFrom(i + 1, m, d, radius)
          ELSE BestFrom(i + 1, best, bestD, radius)

\* the same loop with best replaced on d <= bestD: the last mode wins a tie
RECURSIVE BestFromLast(_, _, _, _)
BestFromLast(i, best, bestD, radius) ==
  IF i > Len(ModeOrder) THEN best
  ELSE LET m == ModeOrder[i]
           d == Abs(DistanceModes[m] - radius)
       IN IF bestD = Infinity \/ d <= bestD
          THEN BestFromLast(i + 1, m, d, radius)
          ELSE BestFromLast(i + 1, best, bestD, radius)

NearestModeLastWins(radius) == BestFromLast(1, ModeOrder[1], Infinity, radius)

NearestMode(radius) == BestFrom(1, ModeOrder[1], Infinity, radius)

\* the damping applied from the threshold on, the threshold included
PanScaledFromThreshold(d, dd) ==
  IF Abs(dd) >= PinchActiveThreshold
  THEN MulDiv(d, PinchPanDampingPercent, 100)
  ELSE d

\* onPointerMove: Math.abs(dd) > pinchActiveThreshold ? pinchPanDamping : 1.0,
\* applied to one coordinate of the centre's movement
PanScaled(d, dd) ==
  IF Abs(dd) > PinchActiveThreshold
  THEN MulDiv(d, PinchPanDampingPercent, 100)
  ELSE d

\* applyPan: panSpeed * (spherical.radius / nearR) times a pixel delta, in 1e-3
\* world units along the camera's right / up axes
PanWorld(px, radius) ==
  MulDiv(MulDiv(px, PanSpeedPerMille, 1000),
         radius \div (DistanceModes["NEAR"] \div 1000), 1000)

\* Spherical.setFromVector3 of a vector built by setFromSpherical: radius and phi
\* come back as they were, theta as atan2 gives it
SetFromVector3(sph) ==
  IF sph.radius = 0 THEN [theta |-> 0, phi |-> 0, radius |-> 0]
  ELSE [theta |-> WrapAngle(sph.theta), phi |-> sph.phi, radius |-> sph.radius]

(***************************************************************************)
(* Collaborators: event bus and save manager.                              *)
(***************************************************************************)
\* the mode announced on the pan channel
ModeEventOnPanChannel(m) == [event |-> "camera:pan", payload |-> m]

ModeEvent(m) == [event |-> "camera:distanceMode", payload |-> m]

PanEvent(t) == [event |-> "camera:pan", payload |-> t]

Origin == [pt |-> "origin", pan |-> <<0, 0>>]

\* a mode change that never reaches the draft
SaveModeSkipped(d, mode) == d

\* save.update((s) => { s.camera.distanceMode = mode })
SaveMode(d, mode) == [d EXCEPT !.distanceMode = mode]

\* createDefaultSave: camera at (0, 0, 5), mode NEAR
DefaultSave ==
  [position |-> [tgt |-> Origin,
                 sph |-> [theta |-> 0, phi |-> HalfPI, radius |-> 500000]],
   distanceMode |-> "NEAR"]

\* what the handler about to run starts from
Last(op, arg, ran) ==
  [op |-> op, arg |-> arg, ran |-> ran, trail |-> <<>>, threw |-> FALSE,
   input |-> 0]

(***************************************************************************)
(* Construction.                                                           *)
(***************************************************************************)
\* a far clamp that starts at the NEAR distance
InitialFarLimitNear == DistanceModes["NEAR"]

\* this.farLimit = this.config.camera.distanceModes.FAR
InitialFarLimit == DistanceModes["FAR"]

Construct(budget) ==
  /\ enabled = TRUE
  /\ target = Origin
  /\ camera = DefaultSave.position
  /\ spherical = SetFromVector3(DefaultSave.position.sph)
  /\ sphericalDelta = [theta |-> 0, phi |-> 0]
  /\ distanceMode = DefaultSave.distanceMode
  /\ isDragging = FALSE
  /\ activePointerId = Null
  /\ lastPointer = <<0, 0>>
  /\ pointers = <<>>
  /\ lastPinchDist = 0
  /\ lastTwoFingerCenter = <<0, 0>>
  /\ radiusOverride = Null
  /\ farLimit = InitialFarLimit
  /\ idleMs = 0
  /\ lastWheelAt = 0
  /\ draft = DefaultSave
  /\ now = 0
  /\ steps = budget
  /\ flushed = 0
  /\ emitted = <<>>
  /\ last = Last("constructor", 0, TRUE)

(***************************************************************************)
(* The pulse chain and the scene manager as they are built.                *)
(***************************************************************************)
\* Constellation_Test.buildSequence
TestSequence == <<"s1", "s4", "s2">>

\* new ResonantPulseChain({ sequence, ... })
NewChain(sequence) ==
  /\ seq = sequence
  /\ index = 0
  /\ playbackActive = FALSE
  /\ teaching = <<>>
  /\ taken = <<>>
  /\ fired = <<>>

\* alpha of a fully opaque overlay (1.0)
Opaque == 6000

\* new SceneManager(...) followed by init(): the first scene is "stillness", no
\* transition is running and the overlay is clear
StartScenes ==
  /\ activeSceneId = "stillness"
  /\ pendingSceneId = <<>>
  /\ transitionInProgress = FALSE
  /\ phase = "idle"
  /\ alpha = 0

\* the objects a run of the camera controller leaves alone
Elsewhere == NewChain(TestSequence) /\ StartScenes

\* a guard that lets every event through
NeverIgnored(on) == FALSE

\* if (!this.enabled) return;
Ignored(on) == ~on

\* every handler is one step of the exploration
Step == steps > 0 /\ steps' = steps - 1 /\ UNCHANGED <<chainVars, sceneVars>>

(***************************************************************************)
(* update(dt): the frame tick.  dt is given in milliseconds.  writeFails    *)
(* is the outcome of the save manager's update(mutator) call: the mutator  *)
(* dereferences s.camera.position of whatever object the save manager      *)
(* holds, and neither persistCamera nor update catches what it throws.     *)
(***************************************************************************)
\* a tick in which auto-rotate takes the place of the pending delta
ApplyRotationExclusive(theta, pending, auto) ==
  IF auto # 0 THEN theta + auto ELSE theta + pending

\* spherical.theta += sphericalDelta.theta, then spherical.theta += the
\* auto-rotate increment of the frame
ApplyRotation(theta, pending, auto) == theta + pending + auto

Update(dt, writeFails) ==
  /\ Step
  /\ now' = now + dt
  /\ emitted' = <<>>
  /\ flushed' = 0
  /\ last' = [Last("update", IF writeFails THEN "write-throws" ELSE "write-ok", enabled)
                EXCEPT !.threw = enabled /\ writeFails]
  /\ IF Ignored(enabled)
     THEN UNCHANGED <<spherical, sphericalDelta, idleMs, camera, draft>>
     ELSE LET phi1 == ClampPhi(spherical.phi + sphericalDelta.phi)
              hasPointers == Len(pointers) > 0
              idle == ~isDragging /\ ~hasPointers
              idle1 == IF idle THEN idleMs + dt ELSE idleMs
              theta2 == ApplyRotation(spherical.theta, sphericalDelta.theta,
                                      AutoRotateStep(idle, idle1, dt))
              sph == [theta |-> theta2, phi |-> phi1,
                      radius |-> ResolveRadius(radiusOverride, distanceMode, farLimit)]
              pos == Pose(target, sph)
          IN /\ spherical' = sph
             /\ sphericalDelta' = [theta |-> Damp(sphericalDelta.theta),
                                   phi |-> Damp(sphericalDelta.phi)]
             /\ idleMs' = idle1
             /\ camera' = pos
             \* persistCamera
             /\ draft' = IF writeFails
                         THEN draft
                         ELSE [position |-> pos, distanceMode |-> distanceMode]
  /\ UNCHANGED <<enabled, target, distanceMode, isDragging, activePointerId,
                 lastPointer, pointers, lastPinchDist, lastTwoFingerCenter,
                 radiusOverride, farLimit, lastWheelAt>>

(***************************************************************************)
(* setTarget(v).  v is a named point; offset is camera.position - v in      *)
(* spherical form, which setFromVector3 computes.                          *)
(***************************************************************************)
TargetPoints == {"origin", "poi"}

\* camera.position - v for the targets tried: v at the camera itself, v straight
\* above the camera, v level with the camera at two distances
RetargetOffsets ==
  { [theta |-> 0, phi |-> 0, radius |-> 0],
    [theta |-> 0, phi |-> PI, radius |-> 40000000],
    [theta |-> 0, phi |-> HalfPI, radius |-> 3000000],
    [theta |-> 0, phi |-> HalfPI, radius |-> 17500000] }

\* a retarget that keeps the angles and the radius it had
OffsetsKept(v) == {spherical}

OffsetsTo(v) ==
  IF camera.tgt = [pt |-> v, pan |-> <<0, 0>>]
  THEN {SetFromVector3(camera.sph)}
  ELSE RetargetOffsets

SetTarget(v) ==
  /\ Step
  /\ \E offset \in OffsetsTo(v) : spherical' = offset
  /\ target' = [pt |-> v, pan |-> <<0, 0>>]
  /\ idleMs' = 0
  /\ emitted' = <<>>
  /\ flushed' = 0
  /\ last' = Last("setTarget", v, TRUE)
  /\ UNCHANGED <<enabled, sphericalDelta, distanceMode, isDragging,
                 activePointerId, lastPointer, pointers, lastPinchDist,
                 lastTwoFingerCenter, radiusOverride, farLimit, lastWheelAt,
                 camera, draft, now>>

(***************************************************************************)
(* cycleDistance(next?), shared by the direct call, the wheel and the      *)
(* double click.  next = "" stands for a call without argument.            *)
(***************************************************************************)
cycleDistance(op, next, input) ==
  LET mode == IF next # "" THEN next ELSE NextMode(distanceMode)
      cam == SaveMode(draft, mode)
  IN /\ distanceMode' = mode
     /\ radiusOverride' = Null
     /\ idleMs' = 0
     /\ draft' = cam
     /\ flushed' = 1
     /\ emitted' = <<ModeEvent(mode)>>
     /\ last' = [Last(op, next, TRUE) EXCEPT
                   !.input = input,
                   !.trail = IF next = "" /\ last.op \in {"cycleDistance", "wheel", "dblclick"}
                                /\ last.ran /\ last.arg = ""
                             THEN SubSeq(Append(last.trail, distanceMode),
                                         Max(1, Len(last.trail) - 1), Len(last.trail) + 1)
                             ELSE IF next = "" THEN <<distanceMode>> ELSE <<>>]

CycleDistance(next) ==
  /\ Step
  /\ cycleDistance("cycleDistance", next, 0)
  /\ UNCHANGED <<enabled, target, spherical, sphericalDelta, isDragging,
                 activePointerId, lastPointer, pointers, lastPinchDist,
                 lastTwoFingerCenter, farLimit, lastWheelAt, camera, now>>

(***************************************************************************)
(* setFarLimit(newFar).                                                    *)
(***************************************************************************)
SetFarLimit(newFar) ==
  Step /\
  LET far == FarLimitFor(newFar)
      current == spherical.radius
      cam == SaveMode(draft, "FAR")
  IN /\ farLimit' = far
     /\ last' = Last("setFarLimit", newFar, TRUE)
     /\ IF current > far
        THEN /\ radiusOverride' = Some(far)
             /\ distanceMode' = "FAR"
             /\ draft' = cam
             /\ flushed' = 1
             /\ emitted' = <<ModeEvent("FAR")>>
        ELSE /\ emitted' = <<>>
             /\ flushed' = 0
             /\ UNCHANGED <<radiusOverride, distanceMode, draft>>
     /\ UNCHANGED <<enabled, target, spherical, sphericalDelta, isDragging,
                    activePointerId, lastPointer, pointers, lastPinchDist,
                    lastTwoFingerCenter, idleMs, lastWheelAt, camera, now>>

(***************************************************************************)
(* Pointer handlers.                                                       *)
(***************************************************************************)
\* onPointerDown: what the handler takes the event for
DownKind(id, button, isPrimary) ==
  IF PointerType(id) # "mouse" THEN "touch"
  ELSE IF ~isPrimary \/ button # 0 THEN "mouse-other"
  ELSE "mouse-left"

\* a pointer that is down does not go down again before it is released
OnPointerDown(id, pos, button, isPrimary) ==
  /\ Step
  /\ ~HasPointer(pointers, id)
  /\ emitted' = <<>>
  /\ flushed' = 0
  /\ last' = Last("pointerdown", DownKind(id, button, isPrimary), enabled)
  /\ IF Ignored(enabled)
     THEN UNCHANGED <<pointers, isDragging, activePointerId, lastPointer, idleMs,
                      lastPinchDist, lastTwoFingerCenter, radiusOverride>>
     ELSE LET pr == [id |-> id, pos |-> pos, prev |-> pos, type |-> PointerType(id)]
              ps == MapSet(pointers, pr)
          IN /\ pointers' = ps
             /\ IF pr.type = "mouse" /\ (~isPrimary \/ button # 0)
                THEN UNCHANGED <<isDragging, activePointerId, lastPointer, idleMs,
                                 lastPinchDist, lastTwoFingerCenter, radiusOverride>>
                ELSE /\ IF pr.type = "mouse"
                        THEN /\ isDragging' = TRUE
                             /\ activePointerId' = Some(id)
                             /\ lastPointer' = pos
                        ELSE UNCHANGED <<isDragging, activePointerId, lastPointer>>
                     /\ idleMs' = 0
                     /\ IF Len(ps) = 2
                        THEN LET ab == getTwoPointers(ps)
                             IN /\ lastPinchDist' = DistanceTo(ab[1].pos, ab[2].pos)
                                /\ lastTwoFingerCenter' = Midpoint(ab[1].pos, ab[2].pos)
                                /\ radiusOverride' =
                                     IF radiusOverride = Null
                                     THEN Some(spherical.radius)
                                     ELSE radiusOverride
                        ELSE UNCHANGED <<lastPinchDist, lastTwoFingerCenter,
                                         radiusOverride>>
  /\ UNCHANGED <<enabled, target, spherical, sphericalDelta, distanceMode, farLimit,
                 lastWheelAt, camera, draft, now>>

\* a sample that leaves the previous position of the record as it was
SampleKeepingPrev(old, pos) == [old EXCEPT !.pos = pos]

\* pr.prev.copy(pr.pos); pr.pos.set(e.clientX, e.clientY)
Sample(old, pos) == [old EXCEPT !.prev = old.pos, !.pos = pos]

\* a sample that replaces the pending delta
RotateByOverwriting(pending, d, speed) == 0 - d * speed

\* a sample that turns the other way
RotateByAdding(pending, d, speed) == pending + d * speed

\* sphericalDelta.theta -= dx * speed, sphericalDelta.phi -= dy * speed
RotateBy(pending, d, speed) == pending - d * speed

\* the three branches of onPointerMove after the record is updated
MouseOrbit(id, ps) ==
  LET pr == GetPointer(ps, id)
      dx == pr.pos[1] - lastPointer[1]
      dy == pr.pos[2] - lastPointer[2]
  IN /\ lastPointer' = pr.pos
     /\ sphericalDelta' = [theta |-> RotateBy(sphericalDelta.theta, dx, MouseRotateSpeed),
                           phi |-> RotateBy(sphericalDelta.phi, dy, MouseRotateSpeed)]
     /\ idleMs' = 0
     /\ emitted' = <<>>
     /\ UNCHANGED <<target, lastPinchDist, lastTwoFingerCenter, radiusOverride>>

TouchOrbit(id, ps) ==
  LET pr == GetPointer(ps, id)
      dx == pr.pos[1] - pr.prev[1]
      dy == pr.pos[2] - pr.prev[2]
  IN /\ sphericalDelta' = [theta |-> RotateBy(sphericalDelta.theta, dx, TouchRotateSpeed),
                           phi |-> RotateBy(sphericalDelta.phi, dy, TouchRotateSpeed)]
     /\ idleMs' = 0
     /\ emitted' = <<>>
     /\ UNCHANGED <<target, lastPointer, lastPinchDist, lastTwoFingerCenter,
                    radiusOverride>>

\* applyPan(pixelDelta): no-op on a zero delta, else the target moves and
\* camera:pan is emitted
applyPan(pixelDelta) ==
  IF pixelDelta = <<0, 0>>
  THEN /\ emitted' = <<>>
       /\ UNCHANGED target
  ELSE LET moved == [target EXCEPT
                       !.pan = <<target.pan[1] - PanWorld(pixelDelta[1], spherical.radius),
                                 target.pan[2] + PanWorld(pixelDelta[2], spherical.radius)>>]
       IN /\ target' = moved
          /\ emitted' = <<PanEvent(moved)>>

\* the locals of the two-finger branch: centre, its movement, the pinch delta,
\* the override the zoom starts from and the pan handed to applyPan
PinchSample(ps) ==
  LET ab == getTwoPointers(ps)
      center == Midpoint(ab[1].pos, ab[2].pos)
      dCenter == <<center[1] - lastTwoFingerCenter[1],
                   center[2] - lastTwoFingerCenter[2]>>
      dist == DistanceTo(ab[1].pos, ab[2].pos)
      dd == dist - lastPinchDist
      seeded == IF radiusOverride = Null THEN spherical.radius ELSE OverrideValue
  IN [center |-> center, dCenter |-> dCenter, dist |-> dist, dd |-> dd,
      from |-> seeded,
      pan |-> <<PanScaled(dCenter[1], dd), PanScaled(dCenter[2], dd)>>]

TwoFingerPanPinch(ps) ==
  LET s == PinchSample(ps)
  IN /\ lastTwoFingerCenter' = s.center
     /\ lastPinchDist' = s.dist
     /\ applyPan(s.pan)
     /\ radiusOverride' = Some(PinchRadius(s.from, s.dd, farLimit))
     /\ idleMs' = 0
     /\ UNCHANGED <<sphericalDelta, lastPointer>>

\* the branch onPointerMove takes for a tracked pointer
MoveBranch(id) ==
  IF ~enabled \/ ~HasPointer(pointers, id) THEN "none"
  ELSE IF PointerType(id) = "mouse" /\ isDragging /\ activePointerId = Some(id)
  THEN "mouse-orbit"
  ELSE IF PointerType(id) # "touch" THEN "none"
  ELSE IF Len(pointers) = 1 THEN "touch-orbit"
  ELSE IF Len(pointers) = 2 THEN "pinch"
  ELSE "none"

\* the samples of the pinch so far, the last two kept: the sample of this move
\* after the one before it, if that was a pinch sample too
MoveTrail(id, pos) ==
  IF MoveBranch(id) # "pinch" THEN <<>>
  ELSE LET old == GetPointer(pointers, id)
           ps == MapSet(pointers, Sample(old, pos))
           before == IF last.op = "pointermove" /\ last.ran /\ last.arg = "pinch"
                     THEN <<last.trail[Len(last.trail)]>>
                     ELSE <<>>
       IN Append(before, PinchSample(ps))

OnPointerMove(id, pos) ==
  /\ Step
  /\ flushed' = 0
  /\ last' = [Last("pointermove", MoveBranch(id), enabled /\ HasPointer(pointers, id))
                EXCEPT !.trail = MoveTrail(id, pos)]
  /\ IF Ignored(enabled) \/ ~HasPointer(pointers, id)
     THEN /\ emitted' = <<>>
          /\ UNCHANGED <<pointers, target, sphericalDelta, lastPointer, idleMs,
                         lastPinchDist, lastTwoFingerCenter, radiusOverride>>
     ELSE LET old == GetPointer(pointers, id)
              ps == MapSet(pointers, Sample(old, pos))
          IN /\ pointers' = ps
             /\ IF PointerType(id) = "mouse" /\ isDragging /\ activePointerId = Some(id)
                THEN MouseOrbit(id, ps)
                ELSE IF PointerType(id) # "touch"
                THEN /\ emitted' = <<>>
                     /\ UNCHANGED <<target, sphericalDelta, lastPointer, idleMs,
                                    lastPinchDist, lastTwoFingerCenter, radiusOverride>>
                ELSE IF Len(ps) = 1
                THEN TouchOrbit(id, ps)
                ELSE IF Len(ps) = 2
                THEN TwoFingerPanPinch(ps)
                ELSE /\ emitted' = <<>>
                     /\ UNCHANGED <<target, sphericalDelta, lastPointer, idleMs,
                                    lastPinchDist, lastTwoFingerCenter, radiusOverride>>
  /\ UNCHANGED <<enabled, spherical, distanceMode, isDragging, activePointerId,
                 farLimit, lastWheelAt, camera, draft, now>>

\* a snap that saves and announces the label only when it changes
SnapAnnouncingChanges(radius) ==
  LET best == NearestMode(radius)
  IN /\ distanceMode' = best
     /\ draft' = SaveMode(draft, best)
     /\ flushed' = IF best = distanceMode THEN 0 ELSE 1
     /\ emitted' = IF best = distanceMode THEN <<>> ELSE <<ModeEvent(best)>>

\* updateDistanceModeFromRadius(radius)
updateDistanceModeFromRadius(radius) ==
  LET best == NearestMode(radius)
      cam == SaveMode(draft, best)
  IN /\ distanceMode' = best
     /\ draft' = cam
     /\ flushed' = 1
     /\ emitted' = <<ModeEvent(best)>>

\* a release that never ends the drag
NeverEndsDrag(active, id) == FALSE

\* if (this.activePointerId === e.pointerId)
EndsDrag(active, id) == active = Some(id)

\* the part onPointerUp and onPointerCancel share
ReleasePointer(op, id) ==
  LET ps == MapDelete(pointers, id)
  IN /\ pointers' = ps
     /\ last' = [Last(op, id, Len(ps) = 0 /\ radiusOverride # Null)
                   EXCEPT !.input = distanceMode]
     /\ IF EndsDrag(activePointerId, id)
        THEN /\ isDragging' = FALSE
             /\ activePointerId' = Null
        ELSE UNCHANGED <<isDragging, activePointerId>>
     /\ IF Len(ps) = 0 /\ radiusOverride # Null
        THEN updateDistanceModeFromRadius(OverrideValue)
        ELSE /\ emitted' = <<>>
             /\ flushed' = 0
             /\ UNCHANGED <<distanceMode, draft>>
     /\ UNCHANGED <<enabled, target, spherical, sphericalDelta, lastPointer,
                    lastPinchDist, lastTwoFingerCenter, radiusOverride, farLimit,
                    idleMs, lastWheelAt, camera, now>>

OnPointerUp(id) ==
  /\ Step
  /\ ReleasePointer("pointerup", id)

OnPointerCancel(id) ==
  /\ Step
  /\ ReleasePointer("pointercancel", id)

OnWindowBlur ==
  /\ Step
  /\ isDragging' = FALSE
  /\ activePointerId' = Null
  /\ pointers' = <<>>
  /\ last' = [Last("blur", 0, radiusOverride # Null) EXCEPT !.input = distanceMode]
  /\ IF radiusOverride # Null
     THEN updateDistanceModeFromRadius(OverrideValue)
     ELSE /\ emitted' = <<>>
          /\ flushed' = 0
          /\ UNCHANGED <<distanceMode, draft>>
  /\ UNCHANGED <<enabled, target, spherical, sphericalDelta, lastPointer,
                 lastPinchDist, lastTwoFingerCenter, radiusOverride, farLimit,
                 idleMs, lastWheelAt, camera, now>>

OnContextMenu ==
  /\ Step
  /\ isDragging' = FALSE
  /\ activePointerId' = Null
  /\ emitted' = <<>>
  /\ flushed' = 0
  /\ last' = Last("contextmenu", 0, TRUE)
  /\ UNCHANGED <<enabled, target, spherical, sphericalDelta, distanceMode,
                 lastPointer, pointers, lastPinchDist, lastTwoFingerCenter,
                 radiusOverride, farLimit, idleMs, lastWheelAt, camera, draft, now>>

(***************************************************************************)
(* Wheel and double click.                                                 *)
(***************************************************************************)
\* a wheel debounce without the cooldown
WheelPassesThresholdOnly(delta, elapsed) == ~(delta < WheelThreshold)

\* a wheel debounce without the threshold
WheelPassesCooldownOnly(delta, elapsed) == ~(elapsed < WheelCooldownMs)

\* the two early returns of onWheel after the enabled test
WheelPasses(delta, elapsed) ==
  ~(delta < WheelThreshold) /\ ~(elapsed < WheelCooldownMs)

OnWheel(deltaY) ==
  Step /\
  LET delta == Abs(deltaY)
      accepted == ~Ignored(enabled) /\ WheelPasses(delta, now - lastWheelAt)
  IN /\ IF accepted
        THEN /\ lastWheelAt' = now
             /\ cycleDistance("wheel", "", deltaY)
        ELSE /\ emitted' = <<>>
             /\ flushed' = 0
             /\ last' = [Last("wheel", "", FALSE) EXCEPT !.input = deltaY]
             /\ UNCHANGED <<lastWheelAt, distanceMode, radiusOverride, idleMs, draft>>
     /\ UNCHANGED <<enabled, target, spherical, sphericalDelta, isDragging,
                    activePointerId, lastPointer, pointers, lastPinchDist,
                    lastTwoFingerCenter, farLimit, camera, now>>

OnDoubleClick ==
  /\ Step
  /\ IF ~Ignored(enabled)
     THEN cycleDistance("dblclick", "", 0)
     ELSE /\ emitted' = <<>>
          /\ flushed' = 0
          /\ last' = Last("dblclick", "", FALSE)
          /\ UNCHANGED <<distanceMode, radiusOverride, idleMs, draft>>
  /\ UNCHANGED <<enabled, target, spherical, sphericalDelta, isDragging,
                 activePointerId, lastPointer, pointers, lastPinchDist,
                 lastTwoFingerCenter, farLimit, lastWheelAt, camera, now>>

(***************************************************************************)
(* The public enabled field, written by the owner of the controller.       *)
(***************************************************************************)
SetEnabled(b) ==
  /\ Step
  /\ b # enabled
  /\ enabled' = b
  /\ emitted' = <<>>
  /\ flushed' = 0
  /\ last' = Last("enabled", 0, TRUE)
  /\ UNCHANGED <<target, spherical, sphericalDelta, distanceMode, isDragging,
                 activePointerId, lastPointer, pointers, lastPinchDist,
                 lastTwoFingerCenter, radiusOverride, farLimit, idleMs,
                 lastWheelAt, camera, draft, now>>

(***************************************************************************)
(* Inputs tried, and the specifications.                                   *)
(***************************************************************************)
ButtonsOf(id) == IF PointerType(id) = "mouse" THEN {0, 2} ELSE {0}

NextWith(ids, positions, frameTimes, farLimits, wheelDeltas, cycleArgs, points, writes) ==
  \/ \E dt \in frameTimes, w \in writes : Update(dt, w)
  \/ \E v \in points : SetTarget(v)
  \/ \E m \in cycleArgs : CycleDistance(m)
  \/ \E f \in farLimits : SetFarLimit(f)
  \/ \E id \in ids, pos \in positions :
       \E b \in ButtonsOf(id) : OnPointerDown(id, pos, b, TRUE)
  \/ \E id \in ids, pos \in positions : OnPointerMove(id, pos)
  \/ \E id \in ids : OnPointerUp(id)
  \/ \E id \in ids : OnPointerCancel(id)
  \/ OnWindowBlur
  \/ OnContextMenu
  \/ \E d \in wheelDeltas : OnWheel(d)
  \/ OnDoubleClick
  \/ \E b \in BOOLEAN : SetEnabled(b)

\* two screen positions 2500 px apart (a 3-4-5 triangle, so the distance is exact)
Positions == {<<0, 0>>, <<6000, 8000>>}
FrameTimes == {300, 6500}
FarLimits == {500000, 17500000, 40000000}
WheelDeltas == {2, 100}
CycleArgs == {"", "FAR"}

\* every handler, mouse and two touches
Init == Construct(MaxSteps) /\ Elsewhere

Next ==
  NextWith(PointerIds, Positions, FrameTimes, FarLimits, WheelDeltas, CycleArgs,
           TargetPoints, {FALSE})

Spec == Init /\ [][Next]_vars

\* every handler, longer runs of a two-touch gesture
InitPinch == Construct(MaxStepsPinch) /\ Elsewhere

NextPinch ==
  NextWith({2, 3}, Positions, {300}, {17500000}, {100}, {""}, {"poi"}, {FALSE})

SpecPinch == InitPinch /\ [][NextPinch]_vars

\* every handler, two touches at positions whose distances from the first are 290,
\* 290 and 289 quarter pixels: a move between them changes the finger distance
\* by nothing or by exactly the pinch threshold
ThresholdPositions == {<<0, 0>>, <<210, 200>>, <<200, 210>>, <<136, 255>>}

InitThreshold == Construct(MaxStepsThreshold) /\ Elsewhere

NextThreshold ==
  NextWith({2, 3}, ThresholdPositions, {300}, {17500000}, {100}, {""}, {"poi"}, {FALSE})

SpecThreshold == InitThreshold /\ [][NextThreshold]_vars

\* every handler, with a save manager whose update(mutator) may throw
InitFault == Construct(MaxStepsFault) /\ Elsewhere

NextFault ==
  NextWith({1, 2}, Positions, {300}, {17500000}, {100}, {""}, {"poi"}, BOOLEAN)

SpecFault == InitFault /\ [][NextFault]_vars

\* every handler, frames shorter than the wheel cooldown and wheel deltas on both
\* sides of the wheel threshold
WheelFrameTimes == {100, 300}
ThresholdWheelDeltas == {3, 4, -100}

InitWheel == Construct(MaxStepsWheel) /\ Elsewhere

NextWheel ==
  NextWith({1}, {<<0, 0>>}, WheelFrameTimes, {17500000}, ThresholdWheelDeltas, {""},
           {"poi"}, {FALSE})

SpecWheel == InitWheel /\ [][NextWheel]_vars

\* every handler, the mouse over three positions, frames long
\* enough for two of them to pass the auto-rotate delay
IdlePositions == {<<0, 0>>, <<6000, 8000>>, <<-400, 200>>}

InitIdle == Construct(MaxStepsIdle) /\ Elsewhere

NextIdle ==
  NextWith({1}, IdlePositions, {6500}, {17500000}, {100}, {""}, {"poi"}, {FALSE})

SpecIdle == InitIdle /\ [][NextIdle]_vars

\* every handler, the mouse at one position, far limits below the AT radius and
\* between the NEAR and the FAR radius, nearer the FAR one
LoweredFarLimits == {500000, 20000000}

InitFar == Construct(MaxStepsFar) /\ Elsewhere

NextFar ==
  NextWith({1}, {<<0, 0>>}, {300}, LoweredFarLimits, {100}, CycleArgs, {"poi"}, {FALSE})

SpecFar == InitFar /\ [][NextFar]_vars

(***************************************************************************)
(* Properties of the radius, the polar angle and the distance modes.       *)
(***************************************************************************)
AtRadius == DistanceModes["AT"]
NearRadius == DistanceModes["NEAR"]

\* the radius a frame tick would give the camera in the current state
ResolvedRadius == ResolveRadius(radiusOverride, distanceMode, farLimit)

InRange(r) == AtRadius <= r /\ r <= farLimit

CycleOps == {"cycleDistance", "wheel", "dblclick"}
SnapOps == {"pointerup", "pointercancel", "blur"}

TickRan == last.op = "update" /\ last.ran
CycleRan == last.op \in CycleOps /\ last.ran
ArglessCycleRan == CycleRan /\ last.arg = ""
SnapRan == last.op \in SnapOps /\ last.ran
PinchSampleRan == last.op = "pointermove" /\ last.ran /\ last.arg = "pinch"

C2_PolarStrictlyInside ==
  last.op = "update" => EPS < spherical.phi /\ spherical.phi < PI - EPS

\* C2, as the code has it: after every frame tick that ran (controller enabled)
\* the polar angle is in the closed interval [EPS, PI - EPS], hence at no pole.
C2_PolarClamped ==
  TickRan =>
    /\ EPS <= spherical.phi /\ spherical.phi <= PI - EPS
    /\ spherical.phi # 0 /\ spherical.phi # PI

\* a mouse drag pushed the polar angle past the upper pole; the tick holds it at EPS
C2_Witness ==
  /\ TickRan
  /\ isDragging
  /\ sphericalDelta.phi < 0
  /\ spherical.phi = EPS

\* C3: whenever radiusOverride is present it lies in [AT radius, farLimit].
C3_OverrideInRange == HasOverride => InRange(OverrideValue)

\* C4: after a frame tick that ran, the radius is the override if present, else
\* the canonical radius of the mode, clamped to [AT radius, farLimit].
C4_TickResolvesRadius ==
  TickRan =>
    spherical.radius =
      IF HasOverride
      THEN Max(AtRadius, Min(farLimit, OverrideValue))
      ELSE Max(AtRadius, Min(farLimit, DistanceModes[distanceMode]))

\* a tick with an override in range: the radius is the override, not the mode's radius
C4_Witness ==
  /\ TickRan
  /\ HasOverride
  /\ InRange(OverrideValue)
  /\ spherical.radius = OverrideValue
  /\ spherical.radius # DistanceModes[distanceMode]

\* C5, as the specification states it: setFarLimit(L) called with the radius above
\* L leaves the radius exactly L, the mode FAR and exactly one mode notification.
C5_PullInToL ==
  (last.op = "setFarLimit" /\ spherical.radius > last.arg) =>
    /\ ResolvedRadius = last.arg
    /\ distanceMode = "FAR"
    /\ emitted = <<[event |-> "camera:distanceMode", payload |-> "FAR"]>>

\* C5, as the code has it: for L at or above the NEAR radius, setFarLimit(L) called
\* with the radius above L makes L the far limit and the override, so the radius
\* resolves to exactly L; the mode is FAR and exactly one mode notification is
\* emitted.
C5_PullInAtOrAboveNear ==
  (last.op = "setFarLimit" /\ last.arg >= NearRadius /\ spherical.radius > last.arg) =>
    /\ farLimit = last.arg
    /\ radiusOverride = Some(last.arg)
    /\ ResolvedRadius = last.arg
    /\ distanceMode = "FAR"
    /\ emitted = <<[event |-> "camera:distanceMode", payload |-> "FAR"]>>

\* the camera sits at the FAR radius when the limit comes down to 175
C5_Witness ==
  /\ last.op = "setFarLimit"
  /\ last.arg = 17500000
  /\ spherical.radius = DistanceModes["FAR"]
  /\ radiusOverride = Some(17500000)

\* the mode a cycle without argument started from
CycledFrom == last.trail[Len(last.trail)]

\* C6, as the specification states it: a cycle without argument goes
\* NEAR -> AT -> FAR -> NEAR.
C6_CycleOrderNearAtFar ==
  ArglessCycleRan =>
    /\ CycledFrom = "NEAR" => distanceMode = "AT"
    /\ CycledFrom = "AT" => distanceMode = "FAR"
    /\ CycledFrom = "FAR" => distanceMode = "NEAR"

\* C6, as the code has it: a cycle without argument goes AT -> NEAR -> FAR -> AT.
C6_CycleOrderAtNearFar ==
  ArglessCycleRan =>
    /\ CycledFrom = "AT" => distanceMode = "NEAR"
    /\ CycledFrom = "NEAR" => distanceMode = "FAR"
    /\ CycledFrom = "FAR" => distanceMode = "AT"

\* the wrap of the cycle: from FAR to AT
C6_Witness ==
  /\ ArglessCycleRan
  /\ CycledFrom = "FAR"
  /\ distanceMode = "AT"

\* C7: three consecutive cycles without argument end in the mode they started
\* from, and the two modes passed through differ from it.
C7_ThreeCyclesReturn ==
  (ArglessCycleRan /\ Len(last.trail) = 3) =>
    /\ distanceMode = last.trail[1]
    /\ last.trail[2] # last.trail[1]
    /\ last.trail[3] # last.trail[1]

\* three cycles in a row from the saved mode
C7_Witness ==
  /\ ArglessCycleRan
  /\ Len(last.trail) = 3
  /\ last.trail[1] = DefaultSave.distanceMode

\* C8: every cycleDistance call (direct, wheel or double click, with or without
\* argument) leaves the override absent and the idle time zero, writes the new
\* mode to the save draft and emits one mode notification carrying it; a call
\* with an argument makes that argument the mode.
C8_CycleEffects ==
  CycleRan =>
    /\ radiusOverride = Null
    /\ idleMs = 0
    /\ draft.distanceMode = distanceMode
    /\ flushed = 1
    /\ emitted = <<[event |-> "camera:distanceMode", payload |-> distanceMode]>>
    /\ last.arg # "" => distanceMode = last.arg

\* a cycle in the middle of a two-finger gesture, whose override it drops
C8_Witness ==
  /\ CycleRan
  /\ Len(pointers) = 2
  /\ lastPinchDist > 0
  /\ radiusOverride = Null

\* |canonical radius of m - r|
ModeDistance(m, r) == Abs(DistanceModes[m] - r)

\* C9: the snap at the end of a gesture picks the mode whose canonical radius is
\* nearest the override; of two modes equally near, the one enumerated first
\* (AT, NEAR, FAR).
C9_SnapNearest ==
  SnapRan =>
    \A m \in Modes :
      \/ ModeDistance(distanceMode, OverrideValue) < ModeDistance(m, OverrideValue)
      \/ /\ ModeDistance(distanceMode, OverrideValue) = ModeDistance(m, OverrideValue)
         /\ ModeIndex(distanceMode) <= ModeIndex(m)

\* two fingers lifted with the override half way between AT and NEAR
C9_Witness ==
  /\ last.op = "pointerup"
  /\ last.ran
  /\ ModeDistance("AT", OverrideValue) = ModeDistance("NEAR", OverrideValue)
  /\ distanceMode = "AT"
  /\ lastPinchDist > 0

\* C10: the snap leaves radiusOverride as it was, and the frame tick that follows
\* the snap gives the camera that override as its radius.
C10_SnapKeepsRadius ==
  [][ /\ (last'.op \in SnapOps /\ last'.ran) => radiusOverride' = radiusOverride
      /\ (SnapRan /\ last'.op = "update" /\ last'.ran) =>
           spherical'.radius = OverrideValue ]_vars

\* the pinch samples of the gesture so far, oldest first (at most two)
PinchTrail == last.trail

\* the last two handlers were pinch samples, fingers together by some amount and
\* then apart by the same amount, the first one starting from a radius in range
PinchInThenOut ==
  /\ PinchSampleRan
  /\ Len(PinchTrail) = 2
  /\ PinchTrail[1].dd < 0
  /\ PinchTrail[2].dd = -PinchTrail[1].dd
  /\ InRange(PinchTrail[1].from)

LastPinch == PinchTrail[Len(PinchTrail)]

\* C12: a move sample of a two-touch gesture with pinch delta dd sets the
\* override to clamp(previous override - dd * pinchZoomSpeed), the previous
\* override being the stored radius where a cycle had cleared it; fingers moving
\* together make the radius larger.
C12_PinchSample ==
  PinchSampleRan =>
    /\ radiusOverride =
         Some(Max(AtRadius, Min(farLimit, LastPinch.from - LastPinch.dd * 1975)))
    /\ LastPinch.dist = lastPinchDist
    /\ (LastPinch.dd < 0 /\ InRange(LastPinch.from)) => OverrideValue >= LastPinch.from

\* fingers 2500 px together from an override of 50: 50 + 2500 * 0.079 = 247.5
C12_Witness ==
  /\ PinchSampleRan
  /\ LastPinch.from = 5000000
  /\ LastPinch.dd = -10000
  /\ radiusOverride = Some(24750000)

\* a quarter of each coordinate: the pan under the pinch-pan damping
Quarter(v) == <<MulDiv(v[1], 25, 100), MulDiv(v[2], 25, 100)>>

\* the pan the sample handed on is the one announced, if any
PanAnnounced ==
  IF LastPinch.pan = <<0, 0>>
  THEN emitted = <<>>
  ELSE emitted = <<[event |-> "camera:pan", payload |-> target]>>

\* C13, as the specification states it: the pan of a two-pointer sample is applied
\* in full when |dd| < pinchActiveThreshold and at a quarter when
\* |dd| >= pinchActiveThreshold, equality included.
C13_PanDampedFromThreshold ==
  PinchSampleRan =>
    /\ Abs(LastPinch.dd) < PinchActiveThreshold => LastPinch.pan = LastPinch.dCenter
    /\ Abs(LastPinch.dd) >= PinchActiveThreshold =>
         LastPinch.pan = Quarter(LastPinch.dCenter)

\* C13, as the code has it: the pan is applied in full when
\* |dd| <= pinchActiveThreshold, equality included, and at a quarter only when
\* |dd| > pinchActiveThreshold.
C13_PanDampedAboveThreshold ==
  PinchSampleRan =>
    /\ Abs(LastPinch.dd) <= PinchActiveThreshold => LastPinch.pan = LastPinch.dCenter
    /\ Abs(LastPinch.dd) > PinchActiveThreshold =>
         LastPinch.pan = Quarter(LastPinch.dCenter)
    /\ PanAnnounced

\* a sample whose pinch delta is exactly the threshold (0.25 px) pans in full
C13_Witness ==
  /\ PinchSampleRan
  /\ Abs(LastPinch.dd) = PinchActiveThreshold
  /\ LastPinch.pan = LastPinch.dCenter
  /\ LastPinch.pan # Quarter(LastPinch.dCenter)
  /\ emitted = <<[event |-> "camera:pan", payload |-> target]>>

\* what the step, a frame tick that ran, added to theta beyond the pending delta
ThetaIncrement == spherical'.theta - (spherical.theta + sphericalDelta.theta)

GestureActive == isDragging \/ pointers # <<>>

\* C14: a frame tick adds the auto-rotate increment (rate times frame time) only
\* when no pointer is tracked, the drag flag is off and the idle time, this frame
\* included, exceeds the delay; idle time grows only in such frames, by the frame
\* time; a frame with a pointer tracked or the drag flag set adds nothing.
C14_AutoRotateOnlyWhenIdle ==
  [][ /\ (last'.op = "update" /\ last'.ran) =>
           /\ ThetaIncrement # 0 =>
                /\ ~GestureActive
                /\ idleMs' > AutoRotateDelayMs
                /\ ThetaIncrement = 1300 * (now' - now)
           /\ GestureActive => (ThetaIncrement = 0 /\ idleMs' = idleMs)
           /\ ~GestureActive => idleMs' = idleMs + (now' - now)
      /\ idleMs' > idleMs => (last'.op = "update" /\ last'.ran /\ ~GestureActive)
    ]_vars

\* the second of two idle frames of 6.5 s: 13 s idle, theta advanced by 0.13 * 6.5
C14_Witness ==
  /\ TickRan
  /\ idleMs = 13000
  /\ spherical.theta = 8450000

PointerDownRan == last.op = "pointerdown" /\ last.ran

\* the step is a frame tick that ran right after a handled pointer-down
TickAfterPointerDown == PointerDownRan /\ last'.op = "update" /\ last'.ran

\* C15, as the specification states it: every pointer-down handled while enabled,
\* whatever the device and the button, sets the idle time to 0, and the next
\* frame tick adds no auto-rotate increment.
C15_AnyPointerDownResetsIdle ==
  [][ /\ (last'.op = "pointerdown" /\ last'.ran) => idleMs' = 0
      /\ TickAfterPointerDown => ThetaIncrement = 0
    ]_vars

\* C15, as the code has it: a touch or a primary left-button mouse pointer-down
\* handled while enabled sets the idle time to 0; a mouse pointer-down with
\* another button, or not primary, leaves the idle time as it was; after any of
\* them the pointer is tracked and the next frame tick adds no auto-rotate
\* increment.
C15_GesturePointerDownResetsIdle ==
  [][ /\ (last'.op = "pointerdown" /\ last'.ran) =>
           /\ last'.arg # "mouse-other" => idleMs' = 0
           /\ last'.arg = "mouse-other" => idleMs' = idleMs
           /\ pointers' # <<>>
      /\ TickAfterPointerDown => ThetaIncrement = 0
    ]_vars

\* a right-button press while auto-rotate is running: idle time stays past the delay
C15_Witness ==
  /\ PointerDownRan
  /\ last.arg = "mouse-other"
  /\ idleMs > AutoRotateDelayMs
  /\ pointers # <<>>

\* the step handles a window blur, a context menu, or the pointer-cancel of the
\* only pointers tracked
HardReset ==
  \/ last'.op \in {"blur", "contextmenu"}
  \/ /\ last'.op = "pointercancel"
     /\ \A i \in 1..Len(pointers) : pointers[i].id = last'.arg

\* the last handler was one of those, the pointer-cancel having left no pointer
AfterHardReset ==
  \/ last.op \in {"blur", "contextmenu"}
  \/ last.op = "pointercancel" /\ pointers = <<>>

\* C16: once a window blur, a context menu or the pointer-cancel of the tracked
\* pointer has been handled, the drag flag is off and no pointer is tracked, and
\* a frame tick that follows it with no input in between (controller enabled)
\* adds its frame time to the idle time, so that auto-rotate is reached.
C16_ResetUnsticks ==
  [][ /\ HardReset => (~isDragging' /\ pointers' = <<>>)
      /\ (AfterHardReset /\ last'.op = "update" /\ last'.ran) =>
           idleMs' = idleMs + (now' - now)
    ]_vars

\* C17: right after a window blur and right after a context menu no pointer is
\* tracked, the drag flag is off and no active pointer id is recorded.
C17_BlurAndContextMenuClearAll ==
  last.op \in {"blur", "contextmenu"} =>
    /\ pointers = <<>>
    /\ ~isDragging
    /\ activePointerId = Null

\* C18: a step that changes the mode label, by a cycle, a snap or the pull-in of
\* setFarLimit, is a step of one of those handlers and emits exactly one
\* distanceMode notification, which carries the new label.
C18_ModeChangeAnnounced ==
  [][ distanceMode' # distanceMode =>
        /\ last'.op \in CycleOps \cup SnapOps \cup {"setFarLimit"}
        /\ emitted' = <<[event |-> "camera:distanceMode", payload |-> distanceMode']>>
    ]_vars

\* two fingers down on a fresh save and a window blur: the snap takes the label
\* from NEAR to AT and announces AT
C18_Witness ==
  /\ steps = MaxSteps - 3
  /\ SnapRan
  /\ distanceMode = "AT"
  /\ distanceMode # DefaultSave.distanceMode
  /\ emitted = <<[event |-> "camera:distanceMode", payload |-> "AT"]>>

InputOps ==
  {"pointerdown", "pointermove", "pointerup", "pointercancel", "blur",
   "contextmenu", "wheel", "dblclick"}

\* no input callback touches the orbit angles, the stored radius or the camera
InputsLeavePose ==
  last'.op \in InputOps => (spherical' = spherical /\ camera' = camera)

\* C19, as the specification states it: no input callback changes azimuth, polar
\* angle, radius or camera position, and nothing but the frame tick writes them.
C19_OnlyTickWritesPose ==
  [][ /\ InputsLeavePose
      /\ (spherical' # spherical \/ camera' # camera) =>
           (last'.op = "update" /\ last'.ran)
    ]_vars

\* C19, as the code has it: no input callback changes azimuth, polar angle,
\* stored radius or camera position; the camera position is written by the frame
\* tick only, which sets it to target + spherical offset; azimuth, polar angle and
\* radius are written by the frame tick and by setTarget.
C19_TickAndSetTargetWritePose ==
  [][ /\ InputsLeavePose
      /\ spherical' # spherical => last'.op \in {"update", "setTarget"}
      /\ camera' # camera => (last'.op = "update" /\ last'.ran)
      /\ (last'.op = "update" /\ last'.ran) =>
           camera' = [tgt |-> target, sph |-> spherical']
    ]_vars

\* a pinch sample has moved the target and the override; the camera and the
\* stored radius are still those of the last pose
C19_Witness ==
  /\ PinchSampleRan
  /\ camera.sph = spherical
  /\ camera.tgt # target
  /\ OverrideValue # spherical.radius

\* C20: the distance mode of the save draft is the controller's mode label in
\* every state, so after every cycle, snap and forced pull-in too; after a frame
\* tick that ran, the draft's camera position is the pose just given to the
\* camera.
C20_DraftFollowsController ==
  /\ draft.distanceMode = distanceMode
  /\ TickRan =>
       /\ draft.position = camera
       /\ camera = [tgt |-> target, sph |-> spherical]

\* a tick after a cycle to FAR: the draft holds the FAR pose and the FAR label
C20_Witness ==
  /\ TickRan
  /\ distanceMode = "FAR"
  /\ spherical.radius = DistanceModes["FAR"]
  /\ draft = [position |-> camera, distanceMode |-> "FAR"]
  /\ draft # DefaultSave

(***************************************************************************)
(* Failure of the persistence write.                                       *)
(***************************************************************************)
\* C21: when the save manager's update throws during a frame tick, the pose of
\* the frame is on the camera, the draft is untouched, and no exception leaves
\* the tick
C21_WriteFailureContained ==
  (last.op = "update" /\ last.ran /\ last.arg = "write-throws") =>
    /\ camera = [tgt |-> target, sph |-> spherical]
    /\ ~last.threw

(***************************************************************************)
(* Debounce of the wheel and the double click.                             *)
(***************************************************************************)
WheelCycled == last.op = "wheel" /\ last.ran
DebouncedCycle == last.op \in {"wheel", "dblclick"} /\ last.ran

C23_FarLimitOnlyBySetFarLimit ==
  /\ [](last.op = "constructor" => farLimit = 30000000)
  /\ [][farLimit' # farLimit => last'.op = "setFarLimit"]_vars

\* a far limit set by setFarLimit has lasted through a later frame tick
C23_Witness ==
  /\ farLimit # 30000000
  /\ last.op = "update" /\ last.ran

(***************************************************************************)
(* The two-pointer state.                                                  *)
(***************************************************************************)
TwoTracked == Len(pointers) = 2
TrackedDistance == DistanceTo(pointers[1].pos, pointers[2].pos)
TrackedMidpoint == Midpoint(pointers[1].pos, pointers[2].pos)

\* C24: whenever the tracked set comes to hold exactly two pointers, by a pointer
\* going down or by one of three lifting or being cancelled, the pinch reference
\* distance and the pan reference midpoint are those of the two pointers
C24_ReferencesSnapshotOnEntry ==
  [][(TwoTracked' /\ ~TwoTracked) =>
       /\ lastPinchDist' = TrackedDistance'
       /\ lastTwoFingerCenter' = TrackedMidpoint']_vars

\* one of three tracked pointers has lifted and the references are not those of
\* the two that remain
StaleAfterLift ==
  /\ last.op \in {"pointerup", "pointercancel"} /\ TwoTracked
  /\ pointers[1].type = "touch" /\ pointers[2].type = "touch"
  /\ lastPinchDist # TrackedDistance

PointerOps == {"pointerdown", "pointermove", "pointerup", "pointercancel"}
TwoTouches ==
  /\ TwoTracked
  /\ pointers[1].type = "touch"
  /\ pointers[2].type = "touch"

\* C25: a pointer handler moves the target or seeds or changes the radius
\* override only when the tracked set it leaves is exactly two touch pointers
C25_PanPinchOnlyTwoTouches ==
  [][(last'.op \in PointerOps /\ (target' # target \/ radiusOverride' # radiusOverride))
       => TwoTouches']_vars

\* a finger has moved beside a tracked mouse pointer and the target and the
\* override have followed
PanPinchBesideMouse ==
  /\ PinchSampleRan /\ TwoTracked /\ ~TwoTouches
  /\ target.pan # <<0, 0>>
  /\ radiusOverride # Null

(***************************************************************************)
(* Rotation: move samples, the pending deltas and the frame tick.          *)
(***************************************************************************)
\* the sensitivity a move sample of the i-th tracked pointer is scaled by, from
\* the state the sample arrives in
SampleSpeed(i) ==
  IF pointers[i].type = "mouse" /\ isDragging /\ activePointerId = <<pointers[i].id>>
  THEN 2500
  ELSE IF pointers[i].type = "touch" /\ Len(pointers) = 1
  THEN 775
  ELSE 0

\* the i-th tracked pointer has taken a move sample away from its position
Sampled(i) ==
  /\ last'.op = "pointermove"
  /\ Len(pointers') = Len(pointers)
  /\ pointers'[i].pos # pointers[i].pos

\* C26: a move sample subtracts its displacement times the sensitivity of its
\* situation from the pending deltas and, where that sensitivity is not zero,
\* resets the idle time; a move event that is no sample of a tracked pointer
\* leaves the pending deltas alone
C26_MoveSampleRotates ==
  [][last'.op = "pointermove" =>
       /\ \A i \in 1..Len(pointers) :
            Sampled(i) =>
              /\ pointers'[i].prev = pointers[i].pos
              /\ sphericalDelta'.theta = sphericalDelta.theta
                   - (pointers'[i].pos[1] - pointers[i].pos[1]) * SampleSpeed(i)
              /\ sphericalDelta'.phi = sphericalDelta.phi
                   - (pointers'[i].pos[2] - pointers[i].pos[2]) * SampleSpeed(i)
              /\ SampleSpeed(i) # 0 => idleMs' = 0
       /\ (\A i \in 1..Len(pointers) : ~Sampled(i)) => sphericalDelta' = sphericalDelta]_vars

\* a mouse drag sample of (1500, 2000) px on top of a finger stroke of the same
\* displacement
C26_Witness ==
  /\ last.op = "pointermove" /\ last.arg = "mouse-orbit"
  /\ sphericalDelta = [theta |-> 0 - 6000 * 2500 - 6000 * 775,
                       phi |-> 0 - 8000 * 2500 - 8000 * 775]

\* C27 as claimed: a frame tick that adds the auto-rotate increment applies no
\* pending delta (the pending deltas are zero), and a tick that applies a
\* non-zero pending delta adds no auto-rotate increment
C27_AutoRotateExcludesDrag ==
  [][(last'.op = "update" /\ last'.ran /\ ThetaIncrement # 0)
       => (sphericalDelta.theta = 0 /\ sphericalDelta.phi = 0)]_vars

\* C27 amended: a frame tick with a pointer tracked or the drag flag set applies
\* the pending deltas and no auto-rotate increment; a tick without them whose
\* idle time passes the delay adds the auto-rotate increment on top of the
\* pending deltas, whatever is left in them
C27_AutoRotateBesideResidue ==
  [][(last'.op = "update" /\ last'.ran) =>
       /\ GestureActive =>
            spherical'.theta = spherical.theta + sphericalDelta.theta
       /\ (~GestureActive /\ idleMs + (now' - now) > 12000) =>
            spherical'.theta = spherical.theta + sphericalDelta.theta
                                 + 1300 * (now' - now)
       /\ (~GestureActive /\ idleMs + (now' - now) <= 12000) =>
            spherical'.theta = spherical.theta + sphericalDelta.theta]_vars

\* auto-rotate has started while the deltas of a finished drag are still pending
C27_Witness ==
  /\ TickRan /\ ~GestureActive
  /\ idleMs > 12000
  /\ sphericalDelta.theta # 0

RECURSIVE SampleTurn(_, _)
\* what the samples taken in this step by the first n tracked pointers turn the
\* camera by, on the axis of screen coordinate c
SampleTurn(n, c) ==
  IF n = 0 THEN 0
  ELSE SampleTurn(n - 1, c)
         + (IF Sampled(n) THEN (pointers'[n].pos[c] - pointers[n].pos[c]) * SampleSpeed(n)
            ELSE 0)

\* C28: every move sample adds its own contribution to the pending deltas, no
\* other callback and no disabled tick touches them, and an enabled frame tick
\* applies all that is pending; so the samples that arrive between two ticks
\* reach the azimuth and the polar angle as their sum, whatever runs between them
C28_SamplesAccumulateUntilTick ==
  [][/\ last'.op = "pointermove" =>
          /\ sphericalDelta'.theta = sphericalDelta.theta - SampleTurn(Len(pointers), 1)
          /\ sphericalDelta'.phi = sphericalDelta.phi - SampleTurn(Len(pointers), 2)
          /\ spherical' = spherical
     /\ (last'.op # "pointermove" /\ ~(last'.op = "update" /\ last'.ran)) =>
          sphericalDelta' = sphericalDelta
     /\ (last'.op = "update" /\ ~last'.ran) => spherical' = spherical
     /\ (last'.op = "update" /\ last'.ran) =>
          /\ spherical'.theta - spherical.theta - sphericalDelta.theta
               \in {0, 1300 * (now' - now)}
          /\ spherical'.phi =
               IF spherical.phi + sphericalDelta.phi < 1000 THEN 1000
               ELSE IF spherical.phi + sphericalDelta.phi > 31415927 - 1000
               THEN 31415927 - 1000
               ELSE spherical.phi + sphericalDelta.phi]_vars

\* a mouse drag from (0, 0) by way of (1500, 2000) px to (-100, 50) px, then a
\* tick: the two samples arrive as their sum, 0.25 * 400 mrad of azimuth and
\* -0.25 * 200 mrad of polar angle
C28_Witness ==
  /\ TickRan
  /\ Len(pointers) = 1
  /\ pointers[1].prev = <<6000, 8000>> /\ pointers[1].pos = <<-400, 200>>
  /\ spherical.theta = 1000000
  /\ spherical.phi = 15707963 - 500000

\* the pending delta d has decayed to e by the factor 1 - 0.031, up to the
\* rounding of the last digit: same sign, strictly smaller unless already zero
DecayedFrom(d, e) ==
  /\ d >= 0 => e >= 0
  /\ d <= 0 => e <= 0
  /\ d # 0 => Abs(e) < Abs(d)
  /\ Abs(e) <= Abs(d) - (Abs(d) \div 1000) * 31
  /\ Abs(e) >= Abs(d) - (Abs(d) \div 1000) * 31 - 31

\* C29: an enabled frame tick adds the pending deltas as they are before the
\* decay, clamps the polar angle, and leaves each pending delta decayed by the
\* factor 1 - damping: never larger, never of the other sign
C29_ApplyThenDecay ==
  [][(last'.op = "update" /\ last'.ran) =>
       /\ \/ spherical'.theta = spherical.theta + sphericalDelta.theta
          \/ spherical'.theta = spherical.theta + sphericalDelta.theta
                                  + 1300 * (now' - now)
       /\ spherical.phi + sphericalDelta.phi < 1000 => spherical'.phi = 1000
       /\ spherical.phi + sphericalDelta.phi > 31415927 - 1000 =>
            spherical'.phi = 31415927 - 1000
       /\ (spherical.phi + sphericalDelta.phi >= 1000
           /\ spherical.phi + sphericalDelta.phi <= 31415927 - 1000) =>
            spherical'.phi = spherical.phi + sphericalDelta.phi
       /\ DecayedFrom(sphericalDelta.theta, sphericalDelta'.theta)
       /\ DecayedFrom(sphericalDelta.phi, sphericalDelta'.phi)]_vars

\* two frames after a mouse drag sample of 1500 px to the right: the pending
\* azimuth delta is -1.5 * 0.969 * 0.969 rad
C29_Witness ==
  /\ TickRan
  /\ sphericalDelta.theta = 0 - 14084415
  /\ sphericalDelta.phi # 0

(***************************************************************************)
(* Re-targeting.                                                           *)
(***************************************************************************)
\* C30: setTarget(v) puts the target at v, takes azimuth, polar angle and radius
\* from the camera position relative to v and sets the idle time to 0; the
\* distance mode, the override, the far limit, the pending deltas, the pointer
\* records, the drag state, the camera and the draft stay as they were, and
\* nothing is emitted or flushed
C30_SetTargetEffects ==
  [][last'.op = "setTarget" =>
       /\ target' = [pt |-> last'.arg, pan |-> <<0, 0>>]
       /\ IF camera.tgt = target'
          THEN spherical' =
                 IF camera.sph.radius = 0
                 THEN [theta |-> 0, phi |-> 0, radius |-> 0]
                 ELSE [camera.sph EXCEPT !.theta = WrapAngle(camera.sph.theta)]
          ELSE spherical' \in RetargetOffsets
       /\ idleMs' = 0
       /\ emitted' = <<>> /\ flushed' = 0
       /\ UNCHANGED <<distanceMode, radiusOverride, farLimit, sphericalDelta,
                      pointers, isDragging, activePointerId, lastPointer,
                      lastPinchDist, lastTwoFingerCenter, camera, draft,
                      enabled, lastWheelAt, now>>]_vars

\* a retarget in the middle of a two-pointer gesture that had seeded the
\* override, to a point straight above the camera
C30_Witness ==
  /\ last.op = "setTarget" /\ last.arg = "poi"
  /\ target = [pt |-> "poi", pan |-> <<0, 0>>]
  /\ spherical = [theta |-> 0, phi |-> 31415927, radius |-> 40000000]
  /\ idleMs = 0
  /\ Len(pointers) = 2 /\ radiusOverride # Null
  /\ camera.tgt # target

(***************************************************************************)
(* The tracked pointer set.                                                *)
(***************************************************************************)
TrackedIds == {pointers[i].id : i \in 1..Len(pointers)}
ReleaseOps == {"pointerup", "pointercancel"}

\* C31: a pointer-up or pointer-cancel removes the record of its id and no
\* other, and clears the drag flag and the active id exactly when its id is the
\* active one; the set of tracked ids grows only by a pointer-down handled while
\* enabled and shrinks only by a release of that id or by a window blur
C31_ReleaseRemovesOnlyItsRecord ==
  [][/\ last'.op \in ReleaseOps =>
          /\ pointers' = SelectSeq(pointers, LAMBDA r : r.id # last'.arg)
          /\ IF activePointerId = <<last'.arg>>
             THEN isDragging' = FALSE /\ activePointerId' = <<>>
             ELSE UNCHANGED <<isDragging, activePointerId>>
     /\ \A id \in TrackedIds' \ TrackedIds :
          last'.op = "pointerdown" /\ enabled /\ TrackedIds' = TrackedIds \cup {id}
     /\ \A id \in TrackedIds \ TrackedIds' :
          \/ last'.op \in ReleaseOps /\ last'.arg = id
          \/ last'.op = "blur" /\ pointers' = <<>>]_vars

\* a finger has lifted during a mouse drag: the mouse record and the drag stay
C31_Witness ==
  /\ last.op = "pointerup" /\ last.arg = 2
  /\ TrackedIds = {1}
  /\ isDragging /\ activePointerId = <<1>>

\* everything of the controller but the pointer records
ControllerBesidePointers ==
  <<enabled, target, spherical, sphericalDelta, distanceMode, isDragging,
    activePointerId, lastPointer, lastPinchDist, lastTwoFingerCenter,
    radiusOverride, farLimit, idleMs, lastWheelAt, camera, draft>>

\* the step changes nothing of the controller and emits nothing
NothingDone ==
  /\ UNCHANGED <<pointers, ControllerBesidePointers>>
  /\ emitted' = <<>> /\ flushed' = 0

\* the record of id has taken the sample pos, and no other record has changed
RecordSampled(id, pos) ==
  /\ Len(pointers') = Len(pointers)
  /\ \A i \in 1..Len(pointers) :
       pointers'[i] =
         IF pointers[i].id = id
         THEN [id |-> id, pos |-> pos, prev |-> pointers[i].pos,
               type |-> pointers[i].type]
         ELSE pointers[i]

\* C32 as claimed: a move event for an id that is not tracked does nothing, and
\* one for a tracked id makes the old current position the previous one and the
\* sample the current one
C32_MoveUpdatesTrackedRecord ==
  [][\A id \in PointerIds, pos \in Positions :
       OnPointerMove(id, pos) =>
         IF id \in TrackedIds THEN RecordSampled(id, pos) ELSE NothingDone]_vars

\* C32 amended: the same, for a tracked id, while the controller is enabled; a
\* move event that arrives while it is disabled does nothing, tracked or not
C32_MoveUpdatesTrackedRecordWhileEnabled ==
  [][\A id \in PointerIds, pos \in Positions :
       OnPointerMove(id, pos) =>
         IF enabled /\ id \in TrackedIds THEN RecordSampled(id, pos) ELSE NothingDone]_vars

\* the mouse, down at (0, 0), has come back there from (1500, 2000) px
C32_Witness ==
  /\ last.op = "pointermove" /\ last.ran
  /\ Len(pointers) = 1
  /\ pointers[1] = [id |-> 1, pos |-> <<0, 0>>, prev |-> <<6000, 8000>>, type |-> "mouse"]

(***************************************************************************)
(* Out-of-range far limits.                                                *)
(***************************************************************************)
\* C33: setFarLimit completes for every requested value and leaves the far limit
\* at the request or, for a request below the NEAR radius, at the NEAR radius;
\* so the far limit is never below the AT radius and the range the resolver
\* clamps into has the AT radius and the far limit in it
C33_FarLimitClampedNotRejected ==
  /\ farLimit >= 5000000
  /\ 1000000 <= farLimit
  /\ last.op = "setFarLimit" =>
       /\ last.ran /\ ~last.threw
       /\ farLimit = IF last.arg < 5000000 THEN 5000000 ELSE last.arg

\* a far limit of 5, below the AT radius of 10, was asked for
C33_Witness ==
  /\ last.op = "setFarLimit" /\ last.arg = 500000
  /\ farLimit = 5000000

(***************************************************************************)
(* The snap after the gesture.                                             *)
(***************************************************************************)
\* C34: every pointer-up or pointer-cancel that leaves no pointer tracked, and
\* every window blur, that finds an override present snaps the label, flushes
\* the save once and emits one distanceMode notification with the label, whether
\* or not the label has changed; the override stays
C34_SnapAlwaysAnnounces ==
  [][(/\ radiusOverride # <<>>
      /\ \/ last'.op \in ReleaseOps /\ pointers' = <<>>
         \/ last'.op = "blur")
       => /\ emitted' = <<[event |-> "camera:distanceMode", payload |-> distanceMode']>>
          /\ flushed' = 1
          /\ draft'.distanceMode = distanceMode'
          /\ radiusOverride' = radiusOverride
          /\ last'.ran]_vars

\* a pointer-up with nothing left tracked has announced the label the controller
\* already had
C34_Witness ==
  /\ last.op = "pointerup" /\ last.ran
  /\ pointers = <<>>
  /\ last.input = distanceMode
  /\ emitted = <<[event |-> "camera:distanceMode", payload |-> distanceMode]>>
  /\ flushed = 1

\* setFarLimit has just pulled the camera in, and the step is a release or a
\* blur that leaves no pointer tracked
SnapAfterPullIn ==
  /\ last.op = "setFarLimit" /\ flushed = 1
  /\ \/ last'.op \in ReleaseOps /\ pointers' = <<>>
     \/ last'.op = "blur"

\* C35 as claimed: the release or blur after a pull-in by setFarLimit(L) snaps
\* the label to the mode whose radius is nearest the limit asked for, AT or
\* NEAR included
C35_ResnapNearestRequested ==
  [][SnapAfterPullIn =>
       distanceMode' = IF last.arg < 3000000 THEN "AT"
                       ELSE IF last.arg <= 17500000 THEN "NEAR"
                       ELSE "FAR"]_vars

\* C35 amended: setFarLimit leaves the label FAR and an override equal to the
\* far limit, which is at least the NEAR radius; the release or blur after it
\* snaps the label to NEAR when that limit is at most half way between NEAR and
\* FAR and to FAR above that, never to AT
C35_ResnapNearOrFar ==
  [][SnapAfterPullIn =>
       /\ distanceMode = "FAR"
       /\ radiusOverride = <<farLimit>>
       /\ farLimit >= 5000000
       /\ distanceMode' = IF farLimit <= 17500000 THEN "NEAR" ELSE "FAR"
       /\ radiusOverride' = radiusOverride]_vars

\* a far limit of 5 was asked for with the camera at FAR; the blur after it has
\* taken the label from FAR to NEAR
C35_Witness ==
  /\ last.op = "blur" /\ last.ran /\ last.input = "FAR"
  /\ distanceMode = "NEAR"
  /\ radiusOverride = <<5000000>> /\ farLimit = 5000000

(***************************************************************************)
(* Pinch tracking over several samples.                                    *)
(***************************************************************************)
\* the pinch sample s has not run into either end of the radius range
Unclamped(s) ==
  /\ s.from - s.dd * 1975 >= 1000000
  /\ s.from - s.dd * 1975 <= farLimit

\* a pointer has just gone down as the second of two, and the step is the first
\* pinch sample of the gesture
FirstSampleOfGesture ==
  /\ last.op = "pointerdown" /\ last.ran /\ TwoTracked
  /\ last'.op = "pointermove" /\ last'.arg = "pinch"

\* C36: the change of the override over the samples of a two-pointer gesture,
\* none of them clamped, is -pinchZoomSpeed times the change of the distance
\* between the two pointers since the gesture started: for the first sample
\* after the second pointer went down, and for two samples in a row taken
\* together
C36_PinchTelescopes ==
  [][/\ (FirstSampleOfGesture /\ Unclamped(last'.trail[1])) =>
          radiusOverride'[1] - last'.trail[1].from
            = 0 - 1975 * (TrackedDistance' - TrackedDistance)
     /\ (last'.op = "pointermove" /\ last'.arg = "pinch" /\ Len(last'.trail) = 2
           /\ Unclamped(last'.trail[1]) /\ Unclamped(last'.trail[2])) =>
          radiusOverride'[1] - last'.trail[1].from
            = 0 - 1975 * (last'.trail[2].dist
                            - (last'.trail[1].dist - last'.trail[1].dd))]_vars

(***************************************************************************)
(* The disabled controller.                                                *)
(***************************************************************************)
GuardedOps == {"update", "pointerdown", "pointermove", "wheel", "dblclick"}

\* C37: while the controller is disabled a frame tick, a pointer-down, a
\* pointer-move, a wheel event and a double click change nothing and emit
\* nothing, so no pointer that goes down is tracked; a pointer-up or
\* pointer-cancel still removes the record of its id, a blur still empties the
\* tracked set and a context-menu event still clears the drag
C37_DisabledIgnoresInput ==
  [][~enabled =>
       /\ last'.op \in GuardedOps => (NothingDone /\ ~last'.ran)
       /\ last'.op \in ReleaseOps =>
            pointers' = SelectSeq(pointers, LAMBDA r : r.id # last'.arg)
       /\ last'.op = "blur" => (pointers' = <<>> /\ ~isDragging')
       /\ last'.op = "contextmenu" => (~isDragging' /\ activePointerId' = <<>>)]_vars

\* the mouse went down at (1500, 2000) px, the controller was disabled, and the
\* release has removed the record all the same
C37_Witness ==
  /\ ~enabled
  /\ last.op = "pointerup" /\ last.arg = 1
  /\ lastPointer = <<6000, 8000>>
  /\ pointers = <<>> /\ ~isDragging

(***************************************************************************)
(* ResonantPulseChain.                                                     *)
(***************************************************************************)
MaxStepsChain == 6

\* playTeach calls that may be waiting on their delay at the same time
MaxTeach == 2

\* star ids of Constellation_Test.buildMemoryStars that the sequences use
PulseIds == {"s1", "s4", "s2"}

\* sequences a constellation may ask for: the test constellation's, one with a
\* repeated element, and a single star
Sequences == {TestSequence, <<"s1", "s1", "s4">>, <<"s4">>}

Hook(name, arg) == [hook |-> name, arg |-> arg]

Hooks(f) == [i \in 1..Len(f) |-> f[i].hook]

\* a step of the pulse chain touches neither the camera nor the scenes
ChainStep == steps > 0 /\ steps' = steps - 1 /\ UNCHANGED <<cameraVars, sceneVars>>

\* a mismatch that leaves the progress where it was
ProgressKept(i) == i

\* this.index = 0 on a mismatch
AfterMismatch(i) == 0

\* const expected = this.seq[this.index]
Expected(sequence, i) == sequence[i + 1]

\* the body of playTeach's loop for counter i: both hooks, then the await
TeachPulse(i) == <<Hook("onPulsePlayback", seq[i + 1]), Hook("onProgress", i + 1)>>

\* the end of playTeach
TeachEnds ==
  /\ playbackActive' = FALSE
  /\ index' = 0
  /\ taken' = <<>>

\* playTeach() up to its first await
PlayTeach ==
  /\ ChainStep
  /\ Len(teaching) < MaxTeach
  /\ last' = Last("playTeach", 0, TRUE)
  /\ seq' = seq
  /\ IF Len(seq) > 0
     THEN /\ playbackActive' = TRUE
          /\ fired' = TeachPulse(0)
          /\ teaching' = Append(teaching, 0)
          /\ UNCHANGED <<index, taken>>
     ELSE /\ TeachEnds
          /\ fired' = <<>>
          /\ teaching' = teaching

\* the oldest delay of a playTeach call resolves: the loop goes on or ends
TeachResume ==
  /\ ChainStep
  /\ teaching # <<>>
  /\ seq' = seq
  /\ LET i == Head(teaching) + 1 IN
       /\ last' = Last("delay", i, TRUE)
       /\ IF i < Len(seq)
          THEN /\ fired' = TeachPulse(i)
               /\ teaching' = Append(Tail(teaching), i)
               /\ UNCHANGED <<playbackActive, index, taken>>
          ELSE /\ TeachEnds
               /\ fired' = <<>>
               /\ teaching' = Tail(teaching)

\* acceptInput(id)
AcceptInput(id) ==
  /\ ChainStep
  /\ UNCHANGED <<seq, teaching, playbackActive>>
  /\ last' = Last("acceptInput", id, ~playbackActive)
  /\ IF playbackActive
     THEN /\ fired' = <<>>
          /\ UNCHANGED <<index, taken>>
     ELSE IF id # Expected(seq, index)
     THEN /\ index' = AfterMismatch(index)
          /\ fired' = <<Hook("onFail", index')>>
          /\ taken' = <<>>
     ELSE IF index + 1 >= Len(seq)
     THEN /\ index' = 0
          /\ fired' = <<Hook("onComplete", 0)>>
          /\ taken' = <<>>
     ELSE /\ index' = index + 1
          /\ fired' = <<>>
          /\ taken' = Append(taken, id)

InitChain == Construct(MaxStepsChain) /\ (\E sq \in Sequences : NewChain(sq)) /\ StartScenes

NextChain ==
  \/ PlayTeach
  \/ TeachResume
  \/ \E id \in PulseIds : AcceptInput(id)

SpecChain == InitChain /\ [][NextChain]_vars

\* the inputs taken so far and the one arriving now
Run(id) == Append(taken, id)

\* C38: the progress counter is the number of inputs taken since the last reset
\* and those inputs are the beginning of the sequence; outside playback an
\* input fires onComplete exactly when it makes the taken inputs spell the whole
\* sequence, and progress then restarts at 0; an input that is not the expected
\* element resets progress to 0, fires onFail and is itself not taken, even when
\* it is the first element of the sequence; during playback an input changes
\* nothing and fires no hook
C38_ChainCompletesOnWholeSequence ==
  /\ [](index = Len(taken) /\ index < Len(seq) /\ taken = SubSeq(seq, 1, index))
  /\ [][last'.op = "acceptInput" =>
          IF playbackActive
          THEN UNCHANGED <<seq, index, playbackActive, teaching, taken>> /\ fired' = <<>>
          ELSE /\ (Hooks(fired') = <<"onComplete">>) <=> (Run(last'.arg) = seq)
               /\ (Hooks(fired') = <<"onFail">>) <=> (last'.arg # seq[Len(taken) + 1])
               /\ Hooks(fired') \in {<<>>, <<"onComplete">>, <<"onFail">>}
               /\ Hooks(fired') # <<>> => (index' = 0 /\ taken' = <<>>)
               /\ Hooks(fired') = <<>> => taken' = Run(last'.arg)]_vars

\* the third star of the test sequence has just completed it
C38_Witness ==
  /\ seq = <<"s1", "s4", "s2">>
  /\ last.op = "acceptInput" /\ last.arg = "s2" /\ last.ran
  /\ Hooks(fired) = <<"onComplete">>
  /\ index = 0

(***************************************************************************)
(* SceneManager and FadeTransition.                                        *)
(***************************************************************************)
\* type SceneId
SceneIds == {"stillness", "test01", "constellation_test"}

\* frame times in ms: a short frame, a quarter second, and a stall longer than
\* either fade
SceneFrameTimes == {100, 250, 2000}

\* a call on the scene manager touches neither the camera nor the pulse chain
SceneStep == UNCHANGED <<cameraVars, steps, chainVars>>

\* a fade that does not move
NoStep(dt) == 0

\* dt / this.speedOut, with speedOut = 1.5 s
OutStep(dt) == 4 * dt

\* dt / this.speedIn, with speedIn = 1.2 s
InStep(dt) == 5 * dt

\* FadeTransition.update(dt)
FadeUpdate(ph, a, dt) ==
  IF ph = "out"
  THEN IF a + OutStep(dt) >= Opaque
       THEN [phase |-> "idle", alpha |-> Opaque]
       ELSE [phase |-> "out", alpha |-> a + OutStep(dt)]
  ELSE IF ph = "in"
  THEN IF a - InStep(dt) <= 0
       THEN [phase |-> "idle", alpha |-> 0]
       ELSE [phase |-> "in", alpha |-> a - InStep(dt)]
  ELSE [phase |-> ph, alpha |-> a]

\* FadeTransition.isOutComplete
IsOutComplete(f) == f.phase = "idle" /\ f.alpha >= Opaque

\* FadeTransition.isInComplete
IsInComplete(f) == f.phase = "idle" /\ f.alpha <= 0

\* SceneManager.transitionTo(sceneId), with FadeTransition.startOut
TransitionTo(sceneId) ==
  /\ SceneStep
  /\ IF transitionInProgress \/ sceneId = activeSceneId
     THEN /\ last' = Last("transitionTo", sceneId, FALSE)
          /\ UNCHANGED sceneVars
     ELSE /\ last' = Last("transitionTo", sceneId, TRUE)
          /\ transitionInProgress' = TRUE
          /\ pendingSceneId' = Some(sceneId)
          /\ phase' = "out"
          /\ alpha' = 0
          /\ activeSceneId' = activeSceneId

\* SceneManager.update(dt), with swapTo and FadeTransition.startIn
SceneUpdate(dt) ==
  /\ SceneStep
  /\ last' = Last("sceneUpdate", dt, TRUE)
  /\ LET now0 == [phase |-> phase, alpha |-> alpha]
         faded == IF transitionInProgress THEN FadeUpdate(phase, alpha, dt) ELSE now0
         swap == transitionInProgress /\ IsOutComplete(faded) /\ pendingSceneId # Null
         after == IF swap THEN [phase |-> "in", alpha |-> Opaque] ELSE faded
     IN /\ activeSceneId' = IF swap THEN pendingSceneId[1] ELSE activeSceneId
        /\ pendingSceneId' = IF swap THEN Null ELSE pendingSceneId
        /\ phase' = after.phase
        /\ alpha' = after.alpha
        /\ transitionInProgress' = (transitionInProgress /\ ~IsInComplete(after))

InitScene == Construct(MaxSteps) /\ Elsewhere

\* Entry.loop: one frame
SceneTick == \E dt \in SceneFrameTimes : SceneUpdate(dt)

NextScene ==
  \/ \E id \in SceneIds : TransitionTo(id)
  \/ SceneTick

\* Entry.loop asks for the next animation frame before it runs the current one,
\* so frames keep coming
SpecScene == InitScene /\ [][NextScene]_vars /\ WF_vars(SceneTick)

\* the request of this step is one the manager ignores
IgnoredRequest == last'.op = "transitionTo" /\ (transitionInProgress \/ last'.arg = activeSceneId)

\* the request of this step is one the manager takes
TakenRequest == last'.op = "transitionTo" /\ ~transitionInProgress /\ last'.arg # activeSceneId

\* C39: a transitionTo made during a transition or naming the active scene
\* changes nothing, any other starts a transition towards the named scene; the
\* active scene changes only in the frame that completes the fade-out, to the
\* pending scene, which is then forgotten while the fade-in starts, so a
\* transition swaps once; the in-progress flag is cleared only by the frame that
\* completes the fade-in; and with frames of positive length a running
\* transition always ends
C39_TransitionSwapsOnceAndEnds ==
  /\ [](IF transitionInProgress
        THEN \/ phase = "out" /\ pendingSceneId # <<>> /\ pendingSceneId[1] # activeSceneId
             \/ phase = "in" /\ pendingSceneId = <<>>
        ELSE phase = "idle" /\ alpha = 0 /\ pendingSceneId = <<>>)
  /\ [][/\ IgnoredRequest => UNCHANGED sceneVars
        /\ TakenRequest =>
             /\ transitionInProgress' /\ pendingSceneId' = <<last'.arg>>
             /\ activeSceneId' = activeSceneId /\ phase' = "out"
        /\ activeSceneId' # activeSceneId =>
             /\ last'.op = "sceneUpdate" /\ transitionInProgress
             /\ phase = "out" /\ alpha + 4 * last'.arg >= 6000
             /\ pendingSceneId = <<activeSceneId'>> /\ pendingSceneId' = <<>>
             /\ phase' = "in" /\ alpha' = 6000 /\ transitionInProgress'
        /\ (transitionInProgress /\ ~transitionInProgress') =>
             /\ last'.op = "sceneUpdate" /\ phase = "in"
             /\ alpha - 5 * last'.arg <= 0]_vars
  /\ (transitionInProgress ~> ~transitionInProgress)

\* a transition to "test01" has run to its end
C39_Witness ==
  /\ activeSceneId = "test01"
  /\ ~transitionInProgress
  /\ last.op = "sceneUpdate"
  /\ phase = "idle" /\ alpha = 0

(***************************************************************************)
(* The drag flag and the active pointer.                                   *)
(***************************************************************************)
\* C40: the drag flag is set exactly when an active pointer id is recorded, and
\* a recorded active pointer id is the id of a tracked pointer
C40_DragMatchesActivePointer ==
  /\ isDragging <=> (activePointerId # <<>>)
  /\ activePointerId # <<>> => activePointerId[1] \in TrackedIds

\* a touch has lifted beside the dragging mouse: the drag and its pointer stay
C40_Witness ==
  /\ last.op = "pointerup" /\ last.arg = 2
  /\ isDragging
  /\ activePointerId = <<1>>
  /\ TrackedIds = {1}

====
